---- MODULE Spec2Model ----
(***************************************************************************)
(* Model of the packaging manifest setup.py of hytorch.                    *)
(*                                                                         *)
(* The manifest imports setup and find_packages from setuptools, evaluates *)
(* find_packages(exclude=[...]) over the directory it is run in, and calls *)
(* setup() once with static metadata and the discovered packages.          *)
(*                                                                         *)
(* Strings are sequences of one-character strings, so that names can be    *)
(* joined, matched against patterns and parsed the way the tools do it.    *)
(* A source tree is a function from directory paths (sequences of          *)
(* directory names) to BOOLEAN: whether the directory holds __init__.py.   *)
(***************************************************************************)
EXTENDS Integers, Sequences, FiniteSets, TLC

\* ------------------------------------------------------------------ bounds

\* The largest number of directories of a source tree.
MaxDirs == 2

\* The number of times the manifest is run, one run after the other.
NumRuns == 2

\* ----------------------------------------------------------------- strings

S_hytorch == <<"h","y","t","o","r","c","h">>
S_images == <<"i","m","a","g","e","s">>
S_jupytor == <<"j","u","p","y","t","o","r">>
S_notebooks == <<"n","o","t","e","b","o","o","k","s">>
S_tests == <<"t","e","s","t","s">>
S_sub == <<"s","u","b">>
S_pycache == <<"_","_","p","y","c","a","c","h","e","_","_">>
S_egginfo == <<"h","y","t","o","r","c","h",".","e","g","g","-","i","n","f","o">>

\* ---------------------------------------------------- the manifest's literals

\* A manifest whose name was left empty.
name_unset == <<>>

name == S_hytorch

version == <<"0",".","0",".","0">>

description == <<"P","y","T","o","r","c","h"," ","M","e","t","a","-",
                 "P","r","o","g","r","a","m","m","i","n","g"," ",
                 "U","s","i","n","g"," ","t","h","e"," ","L","i","s","p"," ",
                 "D","i","a","l","e","c","t"," ","H","y">>

license == <<"M","I","T">>

keywords == <<"H","y"," ","P","y","t","o","r","c","h">>

exclude == << S_images, S_jupytor, S_notebooks >>

\* A manifest renamed to mino in package_data only.
package_data_renamed == (<<"m","i","n","o">> :> << <<"*",".","h","y">> >>)

package_data == (S_hytorch :> << <<"*",".","h","y">> >>)

\* A manifest that asks for a range of torch versions.
install_requires_ranged ==
    << <<"t","o","r","c","h",">","=","1",".","0",".","1",".","p","o","s","t","2">>,
       <<"h","y","=","=","0",".","1","6",".","0">> >>

install_requires ==
    << <<"t","o","r","c","h","=","=","1",".","0",".","1",".","p","o","s","t","2">>,
       <<"h","y","=","=","0",".","1","6",".","0">> >>

\* ------------------------------------------------------------ source trees

\* The directories a source tree of the model may hold.
Paths ==
    { <<S_hytorch>>, <<S_tests>>, <<S_images>>, <<S_jupytor>>, <<S_notebooks>>,
      <<S_egginfo>>, <<S_notebooks, S_sub>>, <<S_hytorch, S_pycache>> }

Parent(p) == SubSeq(p, 1, Len(p) - 1)

\* A tree holds a directory only together with its parent.
DirSets ==
    { D \in SUBSET Paths :
        /\ Cardinality(D) <= MaxDirs
        /\ \A p \in D : Len(p) > 1 => Parent(p) \in D }

Trees == UNION { [D -> BOOLEAN] : D \in DirSets }

\* The orders in which an environment may list the directories of a tree.
RECURSIVE Perms(_)
Perms(S) ==
    IF S = {} THEN { <<>> }
    ELSE UNION { { <<x>> \o q : q \in Perms(S \ {x}) } : x \in S }

Orders(tree) == Perms(DOMAIN tree)

\* ----------------------------------------------------------- find_packages

\* fnmatch.fnmatchcase(s, pat) for patterns of literal characters, ? and *.
RECURSIVE fnmatchcase(_, _)
fnmatchcase(s, pat) ==
    IF pat = <<>> THEN s = <<>>
    ELSE IF Head(pat) = "*"
         THEN \/ fnmatchcase(s, Tail(pat))
              \/ s # <<>> /\ fnmatchcase(Tail(s), pat)
    ELSE /\ s # <<>>
         /\ Head(pat) = "?" \/ Head(pat) = Head(s)
         /\ fnmatchcase(Tail(s), Tail(pat))

\* _Finder._build_filter(*patterns): true of a name matching any pattern.
build_filter(patterns, s) ==
    \E i \in 1..Len(patterns) : fnmatchcase(s, patterns[i])

\* PackageFinder.ALWAYS_EXCLUDE, put before the caller's patterns.
ALWAYS_EXCLUDE == << <<"e","z","_","s","e","t","u","p">>,
                     <<"*">> \o S_pycache >>

\* rel_path.replace(os.path.sep, '.')
RECURSIVE PackageName(_)
PackageName(p) ==
    IF Len(p) = 1 THEN p[1]
    ELSE PackageName(Parent(p)) \o <<".">> \o p[Len(p)]

HasDot(s) == \E i \in 1..Len(s) : s[i] = "."

\* PackageFinder._looks_like_package: the directory holds __init__.py.
looks_like_package(tree, p) == tree[p]

\* The sub-directories of dir, in the order the environment lists them.
Listing(tree, ord, dir) ==
    LET IsChild(p) == Len(p) = Len(dir) + 1 /\ Parent(p) = dir
    IN  SelectSeq(ord, IsChild)

RECURSIVE MapName(_)
MapName(ps) ==
    IF ps = <<>> THEN <<>> ELSE <<PackageName(Head(ps))>> \o MapName(Tail(ps))

\* PackageFinder._find_iter over os.walk, top down: the packages among the
\* sub-directories of dir, then those below each sub-directory that was kept.
\* A directory that is excluded is still searched; one with a dot in its name
\* or without __init__.py is neither yielded nor searched.
RECURSIVE find_iter(_, _, _, _, _)
RECURSIVE walk_dirs(_, _, _, _, _)
find_iter(tree, ord, dir, excl, incl) ==
    LET all_dirs == Listing(tree, ord, dir)
        Valid(p) == ~HasDot(p[Len(p)]) /\ looks_like_package(tree, p)
        dirs == SelectSeq(all_dirs, Valid)
        Yielded(p) == /\ build_filter(incl, PackageName(p))
                      /\ ~build_filter(excl, PackageName(p))
    IN  MapName(SelectSeq(dirs, Yielded)) \o walk_dirs(tree, ord, dirs, excl, incl)

walk_dirs(tree, ord, dirs, excl, incl) ==
    IF dirs = <<>> THEN <<>>
    ELSE find_iter(tree, ord, Head(dirs), excl, incl)
         \o walk_dirs(tree, ord, Tail(dirs), excl, incl)

\* find_packages(where='.', exclude=excl, include=('*',))
find_packages(tree, ord, excl) ==
    find_iter(tree, ord, <<>>, ALWAYS_EXCLUDE \o excl, << <<"*">> >>)

\* --------------------------------------------------------------- the manifest

\* A manifest that leaves hy out of install_requires.
SetupArgsOneDep(pkgs) ==
    [ name |-> name,
      version |-> version,
      description |-> description,
      license |-> license,
      keywords |-> keywords,
      packages |-> pkgs,
      package_data |-> package_data,
      install_requires |-> << install_requires[1] >> ]

\* A manifest that derives its version from the number of packages found.
SetupArgsCounted(pkgs) ==
    [ name |-> name,
      version |-> IF Len(pkgs) > 1 THEN <<"0",".","0",".","1">> ELSE version,
      description |-> description,
      license |-> license,
      keywords |-> keywords,
      packages |-> pkgs,
      package_data |-> package_data,
      install_requires |-> install_requires ]

\* The keyword arguments of the setup() call.
SetupArgs(pkgs) ==
    [ name |-> name,
      version |-> version,
      description |-> description,
      license |-> license,
      keywords |-> keywords,
      packages |-> pkgs,
      package_data |-> package_data,
      install_requires |-> install_requires ]

\* What the external calls may raise.
ImportErrors == { "ImportError" }
FindErrors == { "RecursionError" }
SetupErrors == { "SystemExit", "DistributionNotFound" }

\* A manifest that wraps its calls in try/except and passes.
Swallowed(err) == [ pc |-> "done", outcome |-> "ok" ]

\* The manifest has no try statement: an exception raised by a call leaves
\* the module, and the run ends with it.
Unhandled(err) == [ pc |-> "failed", outcome |-> err ]

VARIABLES
    run,        \* the number of the current run
    pc,         \* where the current run is
    tree,       \* the source tree the run is started in
    packages,   \* what find_packages returned
    calls,      \* the setup() calls of the run, each its keyword arguments
    events,     \* the external calls of the run, in order
    raised,     \* what an external call raised in the run, or "none"
    outcome,    \* how the run ended, or "running"
    prevCalls,  \* the setup() calls of the previous run
    sameTree    \* whether the previous run had the same source tree

vars == << run, pc, tree, packages, calls, events, raised, outcome,
           prevCalls, sameTree >>

StartIn(T) ==
    /\ run = 1
    /\ pc = "start"
    /\ tree \in T
    /\ packages = <<>>
    /\ calls = <<>>
    /\ events = <<>>
    /\ raised = "none"
    /\ outcome = "running"
    /\ prevCalls = <<>>
    /\ sameTree = FALSE

Init == StartIn(Trees)

Raise(err) ==
    /\ raised' = err
    /\ pc' = Unhandled(err).pc
    /\ outcome' = Unhandled(err).outcome

\* from setuptools import setup, find_packages
Import ==
    /\ pc = "start"
    /\ \/ /\ pc' = "imported"
          /\ events' = Append(events, "import")
          /\ UNCHANGED << raised, outcome >>
       \/ /\ \E e \in ImportErrors : Raise(e)
          /\ UNCHANGED events
    /\ UNCHANGED << run, tree, packages, calls, prevCalls, sameTree >>

\* packages=find_packages(exclude=["images", "jupytor", "notebooks"])
FindPackages ==
    /\ pc = "imported"
    /\ \/ /\ \E ord \in Orders(tree) :
                packages' = find_packages(tree, ord, exclude)
          /\ pc' = "found"
          /\ events' = Append(events, "find_packages")
          /\ UNCHANGED << raised, outcome >>
       \/ /\ \E e \in FindErrors : Raise(e)
          /\ UNCHANGED << packages, events >>
    /\ UNCHANGED << run, tree, calls, prevCalls, sameTree >>

\* A manifest that calls setup() in a loop.
SetupCallRepeated ==
    /\ pc = "found"
    /\ Len(calls) < 2
    /\ calls' = Append(calls, SetupArgs(packages))
    /\ events' = Append(events, "setup")
    /\ pc' \in { "found", "in_setup" }
    /\ UNCHANGED << run, tree, packages, raised, outcome, prevCalls, sameTree >>

\* setup(...) is entered with the keyword arguments.
SetupCall ==
    /\ pc = "found"
    /\ calls' = Append(calls, SetupArgs(packages))
    /\ events' = Append(events, "setup")
    /\ pc' = "in_setup"
    /\ UNCHANGED << run, tree, packages, raised, outcome, prevCalls, sameTree >>

\* setup(...) returns or raises; the manifest has no statement after it.
SetupReturn ==
    /\ pc = "in_setup"
    /\ \/ /\ pc' = "done"
          /\ outcome' = "ok"
          /\ events' = Append(events, "return")
          /\ UNCHANGED raised
       \/ /\ \E e \in SetupErrors : Raise(e)
          /\ UNCHANGED events
    /\ UNCHANGED << run, tree, packages, calls, prevCalls, sameTree >>

\* The manifest is run again, in the same source tree or in another.
RunAgain(T) ==
    /\ pc \in { "done", "failed" }
    /\ run < NumRuns
    /\ run' = run + 1
    /\ \E t \in T : tree' = t /\ sameTree' = (t = tree)
    /\ prevCalls' = calls
    /\ pc' = "start"
    /\ packages' = <<>>
    /\ calls' = <<>>
    /\ events' = <<>>
    /\ raised' = "none"
    /\ outcome' = "running"

Next ==
    \/ Import
    \/ FindPackages
    \/ SetupCall
    \/ SetupReturn
    \/ RunAgain(Trees)

Spec == Init /\ [][Next]_vars

\* A second specification: the manifest run in the repository's own tree,
\* which holds the package directory hytorch.
RepoTrees ==
    { t \in Trees : <<S_hytorch>> \in DOMAIN t /\ t[<<S_hytorch>>] }

InitRepo == StartIn(RepoTrees)

NextRepo ==
    \/ Import
    \/ FindPackages
    \/ SetupCall
    \/ SetupReturn
    \/ RunAgain(RepoTrees)

SpecRepo == InitRepo /\ [][NextRepo]_vars

\* ------------------------------------------------- reading a requirement

Digits == { "0","1","2","3","4","5","6","7","8","9" }

Letters ==
    { "a","b","c","d","e","f","g","h","i","j","k","l","m",
      "n","o","p","q","r","s","t","u","v","w","x","y","z",
      "A","B","C","D","E","F","G","H","I","J","K","L","M",
      "N","O","P","Q","R","S","T","U","V","W","X","Y","Z" }

NameChars == Letters \cup Digits \cup { "-", "_", "." }

OpChars == { "=", "<", ">", "!", "~" }

Operators ==
    { <<"=","=">>, <<"!","=">>, <<"<","=">>, <<">","=">>, <<"~","=">>,
      <<"<">>, <<">">>, <<"=","=","=">> }

\* The length of the longest prefix of s made of characters of C.
RECURSIVE PrefixLen(_, _)
PrefixLen(s, C) ==
    IF s = <<>> \/ Head(s) \notin C THEN 0 ELSE 1 + PrefixLen(Tail(s), C)

Drop(s, n) == SubSeq(s, n + 1, Len(s))

ReqName(r) == SubSeq(r, 1, PrefixLen(r, NameChars))

ReqOp(r) ==
    LET rest == Drop(r, Len(ReqName(r)))
    IN  SubSeq(rest, 1, PrefixLen(rest, OpChars))

ReqVersion(r) == Drop(r, Len(ReqName(r)) + Len(ReqOp(r)))

\* The segments of s between its dots.
RECURSIVE SplitDots(_)
SplitDots(s) ==
    LET n == PrefixLen(s, Letters \cup Digits)
    IN  IF n = Len(s) THEN << s >>
        ELSE IF s[n + 1] = "." THEN << SubSeq(s, 1, n) >> \o SplitDots(Drop(s, n + 1))
        ELSE << s >>

IsNumber(seg) == seg # <<>> /\ PrefixLen(seg, Digits) = Len(seg)

Tagged(seg, tag) ==
    /\ Len(seg) > Len(tag)
    /\ SubSeq(seg, 1, Len(tag)) = tag
    /\ IsNumber(Drop(seg, Len(tag)))

\* A public version N(.N)*[.postN][.devN] (no epoch, pre-release or local part).
WellFormedVersion(v) ==
    LET segs == SplitDots(v)
        k == Len(SelectSeq(segs, IsNumber))
        tail == Drop(segs, k)
    IN  /\ k >= 1
        /\ \A i \in 1..k : IsNumber(segs[i])
        /\ \/ tail = <<>>
           \/ Len(tail) = 1 /\ Tagged(tail[1], <<"p","o","s","t">>)
           \/ Len(tail) = 1 /\ Tagged(tail[1], <<"d","e","v">>)
           \/ /\ Len(tail) = 2
              /\ Tagged(tail[1], <<"p","o","s","t">>)
              /\ Tagged(tail[2], <<"d","e","v">>)

WellFormedName(n) ==
    /\ n # <<>>
    /\ n[1] \in Letters \cup Digits
    /\ n[Len(n)] \in Letters \cup Digits

ValidSpecifier(r) ==
    /\ WellFormedName(ReqName(r))
    /\ ReqOp(r) \in Operators
    /\ WellFormedVersion(ReqVersion(r))

Range(s) == { s[i] : i \in 1..Len(s) }

\* ------------------------------------------------------------------ claims

S_torch == <<"t","o","r","c","h">>
S_hy == <<"h","y">>

RequiredFields ==
    { "name", "version", "license", "keywords", "packages", "package_data",
      "install_requires" }

\* C1: every setup() call carries name, version, license, keywords, packages,
\* package_data and install_requires, and install_requires names exactly two
\* distributions, torch and hy.
C1_FieldsDeclared ==
    \A i \in 1..Len(calls) :
        /\ RequiredFields \subseteq DOMAIN calls[i]
        /\ Len(calls[i].install_requires) = 2
        /\ { ReqName(r) : r \in Range(calls[i].install_requires) }
               = { S_torch, S_hy }

C1_Witness == pc = "done" /\ Len(calls) = 1 /\ outcome = "ok"

\* C2: the name passed to setup() is a non-empty string.
C2_NameNonEmpty ==
    \A i \in 1..Len(calls) :
        /\ Len(calls[i].name) > 0
        /\ \A k \in 1..Len(calls[i].name) : calls[i].name[k] \in NameChars

C2_Witness == pc = "in_setup" /\ Len(calls) = 1 /\ calls[1].name = S_hytorch

\* C3: every entry of install_requires is a distribution name, a comparison
\* operator and a well-formed version, and the operator is ==: torch is
\* pinned to 1.0.1.post2 and hy to 0.16.0.
C3_PinnedSpecifiers ==
    \A i \in 1..Len(calls) :
        LET reqs == calls[i].install_requires
        IN  /\ \A j \in 1..Len(reqs) :
                 /\ ValidSpecifier(reqs[j])
                 /\ ReqOp(reqs[j]) = <<"=","=">>
            /\ \A j \in 1..Len(reqs) :
                 /\ ReqName(reqs[j]) = S_torch =>
                      ReqVersion(reqs[j])
                          = <<"1",".","0",".","1",".","p","o","s","t","2">>
                 /\ ReqName(reqs[j]) = S_hy =>
                      ReqVersion(reqs[j]) = <<"0",".","1","6",".","0">>

C3_Witness ==
    /\ raised = "DistributionNotFound"
    /\ Len(calls) = 1
    /\ Len(calls[1].install_requires) = 2

ManifestOrder == << "import", "find_packages", "setup", "return" >>

\* C5, as stated: every run calls setup() exactly once, after find_packages
\* has returned, and is over once setup() has returned.
C5_ExactlyOnce ==
    /\ pc \in { "done", "failed" } => Len(calls) = 1
    /\ calls # <<>> =>
         /\ Len(events) >= 3
         /\ SubSeq(events, 1, 3) = SubSeq(ManifestOrder, 1, 3)
    /\ (events # <<>> /\ events[Len(events)] = "return") => pc = "done"

\* C5, amended: a run makes its external calls once each and in the order of
\* the manifest: setup() is called at most once, only after find_packages
\* has returned and with what it returned, exactly once in a run whose import
\* and find_packages raise nothing, and once setup() has returned the run is
\* over.
C5_OnceInOrder ==
    /\ Len(events) <= Len(ManifestOrder)
    /\ events = SubSeq(ManifestOrder, 1, Len(events))
    /\ Len(calls) = Cardinality({ k \in 1..Len(events) : events[k] = "setup" })
    /\ calls # <<>> => calls[1].packages = packages
    /\ pc = "done" <=> events = ManifestOrder
    /\ pc = "done" => Len(calls) = 1
    /\ (pc = "failed" /\ raised \in SetupErrors) => Len(calls) = 1
    /\ (pc = "failed" /\ raised \notin SetupErrors) => Len(calls) = 0

C5_Witness == run = 2 /\ pc = "done" /\ events = ManifestOrder

\* C6: when an external call raises, the run ends with that exception:
\* nothing is called after it, no value stands in for the failed call, and
\* the arguments setup() was given are the manifest's.
C6_FailurePropagates ==
    /\ raised # "none" =>
         /\ pc = "failed"
         /\ outcome = raised
    /\ raised \in ImportErrors => events = <<>> /\ calls = <<>>
    /\ raised \in FindErrors =>
         /\ events = << "import" >>
         /\ packages = <<>>
         /\ calls = <<>>
    /\ raised \in SetupErrors =>
         /\ events = << "import", "find_packages", "setup" >>
         /\ Len(calls) = 1
    /\ outcome = "ok" => raised = "none"

C6_Witness == raised = "RecursionError" /\ pc = "failed" /\ run = 1

\* package is dir or a package below dir.
InOrUnder(package, dir) ==
    \/ package = dir
    \/ /\ Len(package) > Len(dir)
       /\ SubSeq(package, 1, Len(dir) + 1) = dir \o <<".">>

\* C7: no package passed to setup() is one of the excluded directories
\* images, jupytor and notebooks, or lies below one of them.
C7_NothingBelowExcluded ==
    \A i \in 1..Len(calls) :
        \A pkg \in Range(calls[i].packages) :
            \A d \in { S_images, S_jupytor, S_notebooks } : ~InOrUnder(pkg, d)

StaticFields ==
    { "name", "version", "description", "license", "keywords", "package_data",
      "install_requires" }

SameStatic(a, b) ==
    /\ DOMAIN a = DOMAIN b
    /\ \A f \in StaticFields : a[f] = b[f]

\* C8, as stated: two runs pass the same static arguments to setup(), and
\* the same packages argument when their source trees are the same.
C8_SameArguments ==
    (calls # <<>> /\ prevCalls # <<>>) =>
        /\ SameStatic(calls[1], prevCalls[1])
        /\ sameTree => calls[1].packages = prevCalls[1].packages

\* C8, amended: two runs pass the same static arguments to setup(), and when
\* their source trees are the same, the same package names, each once, in an
\* order that may differ.
C8_SamePackageSet ==
    (calls # <<>> /\ prevCalls # <<>>) =>
        /\ SameStatic(calls[1], prevCalls[1])
        /\ sameTree =>
             /\ Range(calls[1].packages) = Range(prevCalls[1].packages)
             /\ Len(calls[1].packages) = Len(prevCalls[1].packages)
             /\ Cardinality(Range(calls[1].packages)) = Len(calls[1].packages)

C8_Witness ==
    /\ calls # <<>>
    /\ prevCalls # <<>>
    /\ sameTree
    /\ calls[1].packages # prevCalls[1].packages

====
